---- MODULE Spec2Model ----
(***************************************************************************)
(* Model of address_sorter.py: the unit-format classifier, the per-subname *)
(* ROE rule engine (process_roe_subname) and the run that routes records,  *)
(* processes every (Subname, Building Type) group and builds the tabs.     *)
(*                                                                         *)
(* Strings are sequences of one-character strings, so that strip, upper,   *)
(* startswith, "in" and the digit regex are computed, not assumed.         *)
(* A missing value (pandas NaN / None) is the value NaN below.             *)
(***************************************************************************)
EXTENDS Integers, Sequences, FiniteSets, TLC

VARIABLES
    unit_value,         \* classifier run: the argument of get_unit_format_type
    unit_result,        \* classifier run: "pending" or [format, anomaly]
    community,          \* engine run: the subname_df argument (rows, input order)
    building_type,      \* engine run: the building_type argument
    columns,            \* engine run: optional columns present in the frame
    proc,               \* engine run: locals of process_roe_subname and its position
    df,                 \* full run: the loaded frame (rows, input order)
    run                 \* full run: tabs, accumulators and position of run()

vars == <<unit_value, unit_result, community, building_type, columns, proc, df, run>>

(***************************************************************************)
(* Strings                                                                 *)
(***************************************************************************)
NaN == <<"NaN">>

isna(v) == v = NaN

LowerLetters == <<"a","b","c","d","e","f","g","h","i","j","k","l","m",
                  "n","o","p","q","r","s","t","u","v","w","x","y","z">>

UpperLetters == <<"A","B","C","D","E","F","G","H","I","J","K","L","M",
                  "N","O","P","Q","R","S","T","U","V","W","X","Y","Z">>

Digits == {"0","1","2","3","4","5","6","7","8","9"}

Whitespace == {" ", "\t"}

UpperChar(c) ==
    IF \E i \in 1..26 : LowerLetters[i] = c
    THEN UpperLetters[CHOOSE i \in 1..26 : LowerLetters[i] = c]
    ELSE c

upper(s) == [i \in 1..Len(s) |-> UpperChar(s[i])]

RECURSIVE lstrip(_)
lstrip(s) == IF s # <<>> /\ Head(s) \in Whitespace THEN lstrip(Tail(s)) ELSE s

RECURSIVE rstrip(_)
rstrip(s) ==
    IF s # <<>> /\ s[Len(s)] \in Whitespace
    THEN rstrip(SubSeq(s, 1, Len(s) - 1))
    ELSE s

strip(s) == rstrip(lstrip(s))

startswith(s, p) == Len(p) <= Len(s) /\ SubSeq(s, 1, Len(p)) = p

\* Python's  p in s  for strings: p occurs as a contiguous substring of s
contains(s, p) ==
    \E i \in 0..(Len(s) - Len(p)) : SubSeq(s, i + 1, i + Len(p)) = p

\* re.match(r'^\d+$', s) on a stripped string, and str.isdigit()
isdigit(s) == s # <<>> /\ \A i \in 1..Len(s) : s[i] \in Digits

(***************************************************************************)
(* Format classifier                                                       *)
(***************************************************************************)
FormatTags == {"no_unit", "unit_format", "apt_format", "number_only", "ste_format",
               "building_format", "hash_b_format", "hash_format", "other_format"}

KW_UNIT == <<"U","N","I","T">>
KW_APT == <<"A","P","T">>
KW_STE == <<"S","T","E">>
KW_SUITE == <<"S","U","I","T","E">>
KW_BLDG == <<"B","L","D","G">>
KW_BUILDING == <<"B","U","I","L","D","I","N","G">>
KW_HASH == <<"#">>
KW_BDASH == <<"B","-">>
KW_OFC == <<"O","F","C">>
KW_OFFICE == <<"O","F","F","I","C","E">>
KW_CLUBHOUSE == <<"C","L","U","B","H","O","U","S","E">>
KW_LEASING == <<"L","E","A","S","I","N","G">>
KW_CLUB == <<"C","L","U","B">>

OfficeKeywords == {KW_OFC, KW_OFFICE, KW_CLUBHOUSE, KW_LEASING, KW_CLUB}

\* detect_unit_anomalies: None, 'office_indicator' or 'suite_indicator'
detect_unit_anomalies(unit) ==
    IF isna(unit) THEN "None"
    ELSE LET unit_str == strip(upper(unit)) IN
         IF \E keyword \in OfficeKeywords : contains(unit_str, keyword)
         THEN "office_indicator"
         ELSE IF contains(unit_str, KW_STE) \/ contains(unit_str, KW_SUITE)
              THEN "suite_indicator"
              ELSE "None"

get_unit_format_type(unit) ==
    IF isna(unit) THEN "no_unit"
    ELSE LET unit_str == upper(strip(unit)) IN
         IF startswith(unit_str, KW_UNIT) THEN "unit_format"
         ELSE IF startswith(unit_str, KW_APT) THEN "apt_format"
         ELSE IF isdigit(unit_str) THEN "number_only"
         ELSE IF startswith(unit_str, KW_STE) THEN "ste_format"
         ELSE IF contains(unit_str, KW_BLDG) \/ contains(unit_str, KW_BUILDING)
            THEN "building_format"
         ELSE IF startswith(unit_str, KW_HASH) /\ contains(unit_str, KW_BDASH)
            THEN "hash_b_format"
         ELSE IF startswith(unit_str, KW_HASH) THEN "hash_format"
         ELSE "other_format"

(***************************************************************************)
(* Per-subname rule engine: process_roe_subname                            *)
(*                                                                         *)
(* A row is [idx, Unit_Number, Street_Address, Plus_4_Code, Zip, ...]: idx *)
(* is the frame's index label; Street_Address is the rank of the address   *)
(* string in sort order (groupby iterates its keys sorted).  A list of the *)
(* code (keep_addresses, remove_addresses, flagged) is a sequence.         *)
(***************************************************************************)
OVERSIZE_THRESHOLD == 800
CONDO_MAX_STREETS == 3
CONDO_MIN_TOTAL == 50
ONE_OFF_MIN == 10
\* the literal 0.8, as the fraction PCT_NUM / PCT_DEN
PCT_NUM == 4
PCT_DEN == 5

MDU == "Residential - MDU"

Range(s) == {s[i] : i \in 1..Len(s)}

Indices(rows) == [i \in 1..Len(rows) |-> rows[i].idx]

\* DataFrame.drop(labels)
drop(rows, labels) ==
    LET gone == Range(labels) IN SelectSeq(rows, LAMBDA r : r.idx \notin gone)

NoUnitRows(rows) == SelectSeq(rows, LAMBDA r : isna(r.Unit_Number))

WithUnitRows(rows) == SelectSeq(rows, LAMBDA r : ~isna(r.Unit_Number))

Count(seq, x) == Cardinality({i \in 1..Len(seq) : seq[i] = x})

\* list.remove(x): drops the first occurrence
ListRemove(seq, x) ==
    LET at == CHOOSE i \in 1..Len(seq) :
                  seq[i] = x /\ \A j \in 1..(i - 1) : seq[j] # x
    IN  SubSeq(seq, 1, at - 1) \o SubSeq(seq, at + 1, Len(seq))

Reason(kind, format, majority, n) ==
    [kind |-> kind, format |-> format, majority |-> majority, n |-> n]

Flag(idx, reason) == [index |-> idx, reason |-> reason]

InitProc(rows) ==
    [pc |-> "anomalies",
     subname_df |-> rows,
     keep_addresses |-> <<>>,
     remove_addresses |-> <<>>,
     flagged |-> <<>>,
     anomaly_indices |-> <<>>,
     plus4_anomaly_indices |-> <<>>,
     is_condo_style |-> FALSE,
     all_formats |-> <<>>,
     non_majority_format_indices |-> <<>>]

\* a plausible slip: the anomalous rows are listed for removal but stay in the frame
CheckUnitAnomalies_NotDropped(p) ==
    LET anomaly_indices ==
            Indices(SelectSeq(p.subname_df,
                LAMBDA r : detect_unit_anomalies(r.Unit_Number) # "None"))
    IN  [p EXCEPT !.anomaly_indices = anomaly_indices,
                  !.remove_addresses = @ \o anomaly_indices,
                  !.pc = IF Len(p.subname_df) = 0 THEN "done" ELSE "plus4"]

\* lines 160-173: anomalous units go straight to remove, without a flag
CheckUnitAnomalies(p) ==
    LET anomaly_indices ==
            Indices(SelectSeq(p.subname_df,
                LAMBDA r : detect_unit_anomalies(r.Unit_Number) # "None"))
        rest == drop(p.subname_df, anomaly_indices)
    IN  [p EXCEPT !.anomaly_indices = anomaly_indices,
                  !.subname_df = rest,
                  !.remove_addresses = @ \o anomaly_indices,
                  !.pc = IF Len(rest) = 0 THEN "done" ELSE "plus4"]

Plus4Types == {"HOA", MDU, "SFA"}

Plus4Anomalous(r) ==
    /\ ~isna(r.Plus_4_Code)
    /\ LET plus4_str == strip(r.Plus_4_Code)
           zip_str == IF ~isna(r.Zip) THEN strip(r.Zip) ELSE <<>>
       IN  \/ Len(plus4_str) = 5 /\ isdigit(plus4_str)
           \/ plus4_str = zip_str

\* lines 175-195: 5-digit Plus 4 Code, or Plus 4 Code equal to Zip
CheckPlus4Anomalies(p, bt, cols) ==
    LET plus4_anomaly_indices ==
            IF bt \in Plus4Types /\ "Plus 4 Code" \in cols
            THEN Indices(SelectSeq(p.subname_df, Plus4Anomalous))
            ELSE <<>>
        rest == drop(p.subname_df, plus4_anomaly_indices)
    IN  [p EXCEPT !.plus4_anomaly_indices = plus4_anomaly_indices,
                  !.subname_df = rest,
                  !.remove_addresses = @ \o plus4_anomaly_indices,
                  !.pc = IF Len(rest) = 0 THEN "done" ELSE "oversize"]

\* lines 197-204
CheckOversized(p) ==
    LET n == Len(p.subname_df) IN
    [p EXCEPT !.flagged =
                  IF n > OVERSIZE_THRESHOLD
                  THEN @ \o [i \in 1..n |->
                             Flag(p.subname_df[i].idx, Reason("oversize", "-", "-", n))]
                  ELSE @,
              !.pc = "formats"]

StandardFormats == {"unit_format", "apt_format", "number_only"}

AnomalousFormats == {"ste_format", "building_format", "hash_b_format",
                     "hash_format", "other_format"}

FirstAt(seq, x) == CHOOSE i \in 1..Len(seq) : seq[i] = x /\ \A j \in 1..(i - 1) : seq[j] # x

\* the keys of Counter(seq), in insertion order (order of first occurrence)
RECURSIVE KeysFrom(_, _)
KeysFrom(seq, left) ==
    IF left = {} THEN <<>>
    ELSE LET k == CHOOSE x \in left : \A y \in left : FirstAt(seq, x) <= FirstAt(seq, y)
         IN  <<k>> \o KeysFrom(seq, left \ {k})

CounterKeys(seq) == KeysFrom(seq, Range(seq))

\* max(keys, key=count) and Counter.most_common(1): the first key, in
\* insertion order, whose count no other key exceeds
RECURSIVE MaxByCount(_, _, _)
MaxByCount(keys, seq, best) ==
    IF keys = <<>> THEN best
    ELSE MaxByCount(Tail(keys), seq,
                    IF Count(seq, Head(keys)) > Count(seq, best) THEN Head(keys) ELSE best)

FirstMax(keys, seq) == MaxByCount(Tail(keys), seq, Head(keys))

\* a plausible slip: the 80% test of condo-style detection made inclusive,
\* as the one of the isolated no-unit branch is
IsCondoStyle_Inclusive(rows) ==
    LET unique_streets == Cardinality({rows[i].Street_Address : i \in 1..Len(rows)})
        total_addresses == Len(rows)
        with_units == Len(WithUnitRows(rows))
    IN  /\ unique_streets <= CONDO_MAX_STREETS
        /\ with_units * PCT_DEN >= PCT_NUM * total_addresses
        /\ total_addresses > CONDO_MIN_TOTAL

\* lines 211-218
IsCondoStyle(rows) ==
    LET unique_streets == Cardinality({rows[i].Street_Address : i \in 1..Len(rows)})
        total_addresses == Len(rows)
        with_units == Len(WithUnitRows(rows))
    IN  /\ unique_streets <= CONDO_MAX_STREETS
        /\ with_units * PCT_DEN > PCT_NUM * total_addresses
        /\ total_addresses > CONDO_MIN_TOTAL

\* a plausible slip: a tie between standard formats goes to the last key
MajorityStandardFormat_LastWins(all_formats) ==
    LET keys == SelectSeq(CounterKeys(all_formats), LAMBDA f : f \in StandardFormats)
        rev == [i \in 1..Len(keys) |-> keys[Len(keys) + 1 - i]]
    IN  FirstMax(rev, all_formats)

\* lines 236-241, given that a standard format is present
MajorityStandardFormat(all_formats) ==
    LET keys == SelectSeq(CounterKeys(all_formats), LAMBDA f : f \in StandardFormats)
    IN  FirstMax(keys, all_formats)

\* lines 206-266: condo-style detection, then the MDU mixed-format check
CheckMixedFormats(p, bt) ==
    LET rows == p.subname_df
        is_mdu == bt = MDU
        all_formats == [i \in 1..Len(rows) |-> get_unit_format_type(rows[i].Unit_Number)]
        has_standard == Range(all_formats) \cap StandardFormats # {}
        applies == is_mdu /\ Cardinality(Range(all_formats)) > 1 /\ has_standard
        majority == IF applies THEN MajorityStandardFormat(all_formats) ELSE "-"
        NonMajority(i) == all_formats[i] # majority /\ all_formats[i] # "no_unit"
        hits == IF applies
                THEN SelectSeq([i \in 1..Len(rows) |-> i], NonMajority)
                ELSE <<>>
        non_majority_format_indices == [k \in 1..Len(hits) |-> rows[hits[k]].idx]
        flags == [k \in 1..Len(hits) |->
                    Flag(rows[hits[k]].idx,
                         Reason(IF all_formats[hits[k]] \in AnomalousFormats
                                THEN "mdu_anomalous" ELSE "mdu_minority",
                                all_formats[hits[k]], majority, 0))]
        rest == drop(rows, non_majority_format_indices)
    IN  [p EXCEPT !.is_condo_style = IsCondoStyle(rows),
                  !.all_formats = all_formats,
                  !.non_majority_format_indices = non_majority_format_indices,
                  !.flagged = @ \o flags,
                  !.subname_df = rest,
                  !.pc = IF Len(rest) = 0 THEN "done" ELSE "dedup"]

\* a plausible slip: the fraction of the isolated no-unit branch taken over
\* the street-address group instead of the whole frame
DedupGroup_GroupFraction(group, rows, mdu_rules) ==
    LET no_unit_indices == Indices(NoUnitRows(group))
        with_unit_indices == Indices(WithUnitRows(group))
        total_with_units == Len(WithUnitRows(group))
        total_in_subname == Len(group)
    IN  IF mdu_rules
        THEN IF Len(no_unit_indices) > 0 /\ Len(with_unit_indices) > 0
             THEN [keep |-> with_unit_indices, remove |-> no_unit_indices]
             ELSE IF Len(with_unit_indices) > 0
             THEN [keep |-> with_unit_indices, remove |-> <<>>]
             ELSE IF total_with_units * PCT_DEN >= PCT_NUM * total_in_subname
             THEN [keep |-> <<>>, remove |-> no_unit_indices]
             ELSE [keep |-> no_unit_indices, remove |-> <<>>]
        ELSE IF Len(no_unit_indices) > 0 /\ Len(with_unit_indices) > 0
             THEN [keep |-> no_unit_indices, remove |-> with_unit_indices]
             ELSE IF Len(no_unit_indices) > 0
             THEN [keep |-> no_unit_indices, remove |-> <<>>]
             ELSE [keep |-> with_unit_indices, remove |-> <<>>]

\* a plausible slip: the SFA/HOA branch keeps the unit versions, as the MDU branch does
DedupGroup_UnitsWin(group, rows, mdu_rules) ==
    LET no_unit_indices == Indices(NoUnitRows(group))
        with_unit_indices == Indices(WithUnitRows(group))
        total_with_units == Len(WithUnitRows(rows))
        total_in_subname == Len(rows)
    IN  IF Len(no_unit_indices) > 0 /\ Len(with_unit_indices) > 0
        THEN [keep |-> with_unit_indices, remove |-> no_unit_indices]
        ELSE IF Len(with_unit_indices) > 0
        THEN [keep |-> with_unit_indices, remove |-> <<>>]
        ELSE IF mdu_rules /\ total_with_units * PCT_DEN >= PCT_NUM * total_in_subname
        THEN [keep |-> <<>>, remove |-> no_unit_indices]
        ELSE [keep |-> no_unit_indices, remove |-> <<>>]

\* lines 271-326: the decision for one street-address group
\* returns [keep |-> indices, remove |-> indices]
DedupGroup(group, rows, mdu_rules) ==
    LET no_unit_indices == Indices(NoUnitRows(group))
        with_unit_indices == Indices(WithUnitRows(group))
        total_with_units == Len(WithUnitRows(rows))
        total_in_subname == Len(rows)
    IN  IF mdu_rules
        THEN IF Len(no_unit_indices) > 0 /\ Len(with_unit_indices) > 0
             THEN [keep |-> with_unit_indices, remove |-> no_unit_indices]
             ELSE IF Len(with_unit_indices) > 0
             THEN [keep |-> with_unit_indices, remove |-> <<>>]
             ELSE IF total_with_units * PCT_DEN >= PCT_NUM * total_in_subname
             THEN [keep |-> <<>>, remove |-> no_unit_indices]
             ELSE [keep |-> no_unit_indices, remove |-> <<>>]
        ELSE IF Len(no_unit_indices) > 0 /\ Len(with_unit_indices) > 0
             THEN [keep |-> no_unit_indices, remove |-> with_unit_indices]
             ELSE IF Len(no_unit_indices) > 0
             THEN [keep |-> no_unit_indices, remove |-> <<>>]
             ELSE [keep |-> with_unit_indices, remove |-> <<>>]

\* the street addresses of the frame, ascending (groupby sorts its keys)
RECURSIVE SortedKeys(_)
SortedKeys(S) ==
    IF S = {} THEN <<>>
    ELSE LET m == CHOOSE x \in S : \A y \in S : x <= y
         IN  <<m>> \o SortedKeys(S \ {m})

RECURSIVE DedupStreets(_, _, _, _)
DedupStreets(streets, rows, mdu_rules, acc) ==
    IF streets = <<>> THEN acc
    ELSE LET group == SelectSeq(rows, LAMBDA r : r.Street_Address = Head(streets))
             d == DedupGroup(group, rows, mdu_rules)
         IN  DedupStreets(Tail(streets), rows, mdu_rules,
                          [keep |-> acc.keep \o d.keep, remove |-> acc.remove \o d.remove])

\* a plausible slip: records already flagged are left out of deduplication
GroupByStreetAddress_SkipsFlagged(p, bt) ==
    LET noted == {p.flagged[i].index : i \in 1..Len(p.flagged)}
        rows == SelectSeq(p.subname_df, LAMBDA r : r.idx \notin noted)
        streets == SortedKeys({rows[i].Street_Address : i \in 1..Len(rows)})
        d == DedupStreets(streets, rows, bt = MDU \/ p.is_condo_style,
                          [keep |-> <<>>, remove |-> <<>>])
    IN  [p EXCEPT !.keep_addresses = @ \o d.keep,
                  !.remove_addresses = @ \o d.remove,
                  !.pc = "minority"]

\* lines 268-326
GroupByStreetAddress(p, bt) ==
    LET rows == p.subname_df
        streets == SortedKeys({rows[i].Street_Address : i \in 1..Len(rows)})
        d == DedupStreets(streets, rows, bt = MDU \/ p.is_condo_style,
                          [keep |-> <<>>, remove |-> <<>>])
    IN  [p EXCEPT !.keep_addresses = @ \o d.keep,
                  !.remove_addresses = @ \o d.remove,
                  !.pc = "minority"]

\* a plausible slip: the test 'not yet assigned to keep or remove' left out
CheckMinorityFormats_IgnoresDecision(p, bt) ==
    LET rows == p.subname_df
        all_formats == p.all_formats
        applies == bt # MDU /\ Cardinality(Range(all_formats)) > 1
        total == Len(all_formats)
        majority_format == IF applies THEN FirstMax(CounterKeys(all_formats), all_formats)
                           ELSE "-"
        majority_count == Count(all_formats, majority_format)
        Minority(r) ==
            /\ get_unit_format_type(r.Unit_Number) # majority_format
            /\ get_unit_format_type(r.Unit_Number) # "no_unit"
        hits == IF applies /\ majority_count * PCT_DEN > PCT_NUM * total
                THEN SelectSeq(rows, Minority)
                ELSE <<>>
    IN  [p EXCEPT !.flagged = @ \o [k \in 1..Len(hits) |->
                      Flag(hits[k].idx,
                           Reason("minority", get_unit_format_type(hits[k].Unit_Number),
                                  majority_format, 0))],
                  !.pc = "one_off"]

\* lines 328-345
CheckMinorityFormats(p, bt) ==
    LET rows == p.subname_df
        all_formats == p.all_formats
        applies == bt # MDU /\ Cardinality(Range(all_formats)) > 1
        total == Len(all_formats)
        majority_format == IF applies THEN FirstMax(CounterKeys(all_formats), all_formats)
                           ELSE "-"
        majority_count == Count(all_formats, majority_format)
        kept == Range(p.keep_addresses)
        removed == Range(p.remove_addresses)
        Minority(r) ==
            /\ r.idx \notin kept
            /\ r.idx \notin removed
            /\ get_unit_format_type(r.Unit_Number) # majority_format
            /\ get_unit_format_type(r.Unit_Number) # "no_unit"
        hits == IF applies /\ majority_count * PCT_DEN > PCT_NUM * total
                THEN SelectSeq(rows, Minority)
                ELSE <<>>
    IN  [p EXCEPT !.flagged = @ \o [k \in 1..Len(hits) |->
                      Flag(hits[k].idx,
                           Reason("minority", get_unit_format_type(hits[k].Unit_Number),
                                  majority_format, 0))],
                  !.pc = "one_off"]

\* a plausible slip: the lone record is not taken out of keep_addresses
ForceRemove_StaysKept(p, single_idx, reason) ==
    [p EXCEPT !.remove_addresses = Append(@, single_idx),
              !.flagged = Append(@, Flag(single_idx, reason)),
              !.pc = "done"]

\* lines 356-364 and 367-375: the lone record is forced to remove and flagged
ForceRemove(p, single_idx, reason) ==
    [p EXCEPT !.keep_addresses = IF single_idx \in Range(@)
                                 THEN ListRemove(@, single_idx) ELSE @,
              !.remove_addresses = Append(@, single_idx),
              !.flagged = Append(@, Flag(single_idx, reason)),
              !.pc = "done"]

\* lines 347-377
CheckOneOff(p) ==
    LET rows == p.subname_df
        total_in_subname == Len(rows)
        no_unit_count == Len(NoUnitRows(rows))
        with_unit_count == total_in_subname - no_unit_count
    IN  IF total_in_subname > ONE_OFF_MIN /\ no_unit_count = 1
           /\ with_unit_count > ONE_OFF_MIN
        THEN ForceRemove(p, NoUnitRows(rows)[1].idx,
                         Reason("one_off_no_unit", "-", "-", with_unit_count))
        ELSE IF total_in_subname > ONE_OFF_MIN /\ with_unit_count = 1
                /\ no_unit_count > ONE_OFF_MIN
        THEN ForceRemove(p, WithUnitRows(rows)[1].idx,
                         Reason("one_off_with_unit", "-", "-", no_unit_count))
        ELSE [p EXCEPT !.pc = "done"]

\* one section of process_roe_subname, chosen by the position reached
Step(p, bt, cols) ==
    CASE p.pc = "anomalies" -> CheckUnitAnomalies(p)
      [] p.pc = "plus4" -> CheckPlus4Anomalies(p, bt, cols)
      [] p.pc = "oversize" -> CheckOversized(p)
      [] p.pc = "formats" -> CheckMixedFormats(p, bt)
      [] p.pc = "dedup" -> GroupByStreetAddress(p, bt)
      [] p.pc = "minority" -> CheckMinorityFormats(p, bt)
      [] p.pc = "one_off" -> CheckOneOff(p)
      [] OTHER -> p

RECURSIVE RunFrom(_, _, _)
RunFrom(p, bt, cols) == IF p.pc = "done" THEN p ELSE RunFrom(Step(p, bt, cols), bt, cols)

\* the whole call: (keep_addresses, remove_addresses, flagged)
process_roe_subname(subname_df, bt, cols) == RunFrom(InitProc(subname_df), bt, cols)

Idle == [pc |-> "idle"]

Pending == [format |-> "pending", anomaly |-> "pending"]

(***************************************************************************)
(* Engine run: one call of process_roe_subname on one community.           *)
(* The community is a few free rows followed, in some runs, by a bulk of   *)
(* identical rows whose size sits at a threshold of the code.              *)
(***************************************************************************)
MaxRows == 3
MaxTail == 1
MaxPlus4Rows == 2
Streets == {1, 2}

ROETypes == {MDU, "SFA", "HOA", "Mobile"}

UNIT_6 == <<"U","N","I","T"," ","6">>
Apt_6 == <<"A","p","t"," ","6">>
Num_6 == <<"6">>
Hash_6 == <<"#"," ","6">>
ofc_2 == <<"o","f","c"," ","2">>

UnitValues == {NaN, UNIT_6, Apt_6, Num_6, Hash_6, ofc_2}

Blank == <<" ">>
P_1234 == <<"1","2","3","4">>
P_12345 == <<"1","2","3","4","5">>

Plus4Values == {NaN, Blank, P_1234, P_12345}

ZipValues == {NaN, P_1234}

SeqsUpTo(S, k) == UNION {[1..n -> S] : n \in 0..k}

\* the frame's index labels: the position of the row in the input
Number(templates) ==
    [i \in 1..Len(templates) |->
        [idx |-> i,
         Unit_Number |-> templates[i].Unit_Number,
         Street_Address |-> templates[i].Street_Address,
         Plus_4_Code |-> templates[i].Plus_4_Code,
         Zip |-> templates[i].Zip]]

FreeTemplates ==
    [Unit_Number : UnitValues, Street_Address : Streets,
     Plus_4_Code : {NaN}, Zip : {NaN}]

Plus4Templates ==
    [Unit_Number : {NaN, ofc_2}, Street_Address : {1},
     Plus_4_Code : Plus4Values, Zip : ZipValues]

\* bulk sizes at the one-off and condo-style thresholds of the code
BulkSizes == {ONE_OFF_MIN, ONE_OFF_MIN + 1, CONDO_MIN_TOTAL, CONDO_MIN_TOTAL + 1}

Bulk(size, unit) ==
    [i \in 1..size |->
        [Unit_Number |-> unit, Street_Address |-> 1, Plus_4_Code |-> NaN, Zip |-> NaN]]

SmallCommunities == {Number(t) : t \in SeqsUpTo(FreeTemplates, MaxRows)}

BulkCommunities ==
    {Number(t \o Bulk(size, unit)) :
        t \in SeqsUpTo(FreeTemplates, MaxTail), size \in BulkSizes, unit \in {NaN, UNIT_6}}

\* at the oversize threshold: exactly 800 rows, and 801 with one free row
OversizeCommunities ==
    {Number(t \o Bulk(OVERSIZE_THRESHOLD, unit)) :
        t \in SeqsUpTo(FreeTemplates, 1), unit \in {NaN, UNIT_6}}

Plus4Communities == {Number(t) : t \in SeqsUpTo(Plus4Templates, MaxPlus4Rows)}

\* <<with units, without units>> around the condo-style and 0.8 thresholds:
\* 50 rows at 80% and at 82%, 51 rows at 82% and at 78%, 55 rows at 80%,
\* 56 rows at just over 80%
MixedCounts ==
    {<<40, 10>>, <<41, 9>>, <<42, 9>>, <<40, 11>>, <<44, 11>>, <<45, 11>>}

MixedStreets == 1..(CONDO_MAX_STREETS + 1)

\* with_units rows with a unit on street 1, then no_units rows without one,
\* dealt over streets 1..streets: street 1 holds both kinds, the others
\* hold records without a unit only
Mixed(with_units, no_units, streets) ==
    [i \in 1..(with_units + no_units) |->
        [Unit_Number |-> IF i <= with_units THEN UNIT_6 ELSE NaN,
         Street_Address |-> IF i <= with_units THEN 1
                            ELSE ((i - with_units - 1) % streets) + 1,
         Plus_4_Code |-> NaN, Zip |-> NaN]]

MixedCommunities ==
    {Number(t \o Mixed(c[1], c[2], k)) :
        t \in SeqsUpTo(FreeTemplates, 1), c \in MixedCounts, k \in MixedStreets}

Init ==
    /\ building_type \in ROETypes
    /\ \/ /\ community \in SmallCommunities \cup BulkCommunities
                           \cup OversizeCommunities \cup MixedCommunities
          /\ columns = {}
       \/ /\ community \in Plus4Communities
          /\ columns \in {{"Plus 4 Code"}, {"Plus 4 Code", "Zip"}}
          /\ "Zip" \notin columns => \A i \in 1..Len(community) : isna(community[i].Zip)
    /\ proc = InitProc(community)
    /\ unit_value = NaN /\ unit_result = Pending
    /\ df = Idle /\ run = Idle

EngineFrame ==
    UNCHANGED <<unit_value, unit_result, community, building_type, columns, df, run>>

AnomalyStage ==
    /\ proc.pc = "anomalies"
    /\ proc' = Step(proc, building_type, columns)
    /\ EngineFrame

Plus4Stage ==
    /\ proc.pc = "plus4"
    /\ proc' = Step(proc, building_type, columns)
    /\ EngineFrame

OversizeStage ==
    /\ proc.pc = "oversize"
    /\ proc' = Step(proc, building_type, columns)
    /\ EngineFrame

FormatStage ==
    /\ proc.pc = "formats"
    /\ proc' = Step(proc, building_type, columns)
    /\ EngineFrame

DedupStage ==
    /\ proc.pc = "dedup"
    /\ proc' = Step(proc, building_type, columns)
    /\ EngineFrame

MinorityStage ==
    /\ proc.pc = "minority"
    /\ proc' = Step(proc, building_type, columns)
    /\ EngineFrame

OneOffStage ==
    /\ proc.pc = "one_off"
    /\ proc' = Step(proc, building_type, columns)
    /\ EngineFrame

Next ==
    \/ AnomalyStage
    \/ Plus4Stage
    \/ OversizeStage
    \/ FormatStage
    \/ DedupStage
    \/ MinorityStage
    \/ OneOffStage

Spec == Init /\ [][Next]_vars


(***************************************************************************)
(* Properties of the engine run.  The index label of a row of the          *)
(* community is its position (Number), so community[id] is the row of id.  *)
(***************************************************************************)
Done == proc.pc = "done"

Keep == Range(proc.keep_addresses)

Remove == Range(proc.remove_addresses)

InputIds == 1..Len(community)

FlaggedIds == {proc.flagged[i].index : i \in 1..Len(proc.flagged)}

\* C1: every input record id of the community is in exactly one of the
\* returned keep set and remove set: never both, never neither.
C1_ExactlyOneOfKeepRemove ==
    Done => LET keep == Keep
                remove == Remove
            IN  \A id \in InputIds :
                    /\ id \in keep \/ id \in remove
                    /\ ~(id \in keep /\ id \in remove)

AnomalyKeywords == OfficeKeywords \cup {KW_STE, KW_SUITE}

TriggersAnomaly(unit) ==
    ~isna(unit) /\ \E kw \in AnomalyKeywords : contains(upper(unit), kw)

AnomalousIds == {id \in InputIds : TriggersAnomaly(community[id].Unit_Number)}

\* C3: a record whose unit designator holds an anomaly keyword ends in
\* remove, never in keep, with no flag entry, and the rest of the result is
\* what the call returns for the community without those records.
C3_AnomaliesRemovedUnflaggedUncounted ==
    Done =>
        LET bad == AnomalousIds
            clean == SelectSeq(community, LAMBDA r : r.idx \notin bad)
            anomalous == SelectSeq(community, LAMBDA r : r.idx \in bad)
            ref == process_roe_subname(clean, building_type, columns)
        IN  /\ bad \subseteq Remove
            /\ bad \cap Keep = {}
            /\ bad \cap FlaggedIds = {}
            /\ proc.keep_addresses = ref.keep_addresses
            /\ proc.flagged = ref.flagged
            /\ proc.remove_addresses = Indices(anomalous) \o ref.remove_addresses

\* an anomalous record in a frame of 801 rows: it is removed, the others
\* are kept, and the 800 survivors raise no oversize flag
C3_Witness ==
    /\ Done
    /\ AnomalousIds # {}
    /\ Keep # {}
    /\ Len(community) > OVERSIZE_THRESHOLD
    /\ proc.flagged = <<>>

\* the records left after the anomaly stage, and after the Plus 4 stage
AfterStage1 == InputIds \ Range(proc.anomaly_indices)

AfterStage2 == AfterStage1 \ Range(proc.plus4_anomaly_indices)

Stage2Ran == proc.pc \notin {"anomalies", "plus4"}

FiveDigit(v) == Len(strip(v)) = 5 /\ isdigit(strip(v))

EqualsPostalCode(r) == ~isna(r.Zip) /\ strip(r.Plus_4_Code) = strip(r.Zip)

\* what the claim says stage 2 removes
Stage2Due(r) ==
    /\ building_type \in {"HOA", MDU, "SFA"}
    /\ "Plus 4 Code" \in columns
    /\ ~isna(r.Plus_4_Code)
    /\ FiveDigit(r.Plus_4_Code) \/ EqualsPostalCode(r)

\* C4: stage 2 removes a survivor of stage 1 if and only if the category is
\* HOA, Residential-MDU or SFA, the record has a postal-extension value and
\* the value is 5 digits or equals the record's postal code; such a record
\* goes to remove without a flag.
C4_Stage2RemovesExactly ==
    Stage2Ran =>
        LET due == {id \in AfterStage1 : Stage2Due(community[id])}
        IN  /\ Range(proc.plus4_anomaly_indices) = due
            /\ due \subseteq Remove
            /\ due \cap Keep = {}
            /\ due \cap FlaggedIds = {}

\* the same statement with a blank extension counted as no value: it holds
C4_Stage2ExceptBlank ==
    Stage2Ran =>
        LET due == {id \in AfterStage1 : Stage2Due(community[id])}
            blank == {id \in AfterStage1 :
                        /\ ~isna(community[id].Plus_4_Code)
                        /\ strip(community[id].Plus_4_Code) = <<>>}
        IN  /\ Range(proc.plus4_anomaly_indices) \ blank = due \ blank
            /\ due \subseteq Remove
            /\ due \cap Keep = {}
            /\ due \cap FlaggedIds = {}

NoUnitIds == {id \in InputIds : isna(community[id].Unit_Number)}

WithUnitIds == InputIds \ NoUnitIds

EveryStreetHasBoth ==
    /\ community # <<>>
    /\ \A id \in InputIds :
           \E other \in InputIds :
               /\ community[other].Street_Address = community[id].Street_Address
               /\ isna(community[other].Unit_Number) # isna(community[id].Unit_Number)

C5_Pre ==
    /\ building_type = "SFA"
    /\ AnomalousIds = {}
    /\ proc.plus4_anomaly_indices = <<>>
    /\ EveryStreetHasBoth

\* C5 as stated: in an SFA community without anomalies in which every street
\* address has a no-unit and a has-unit record, every no-unit record is
\* returned in keep and every has-unit record in remove.
C5_SfaKeepsNoUnit ==
    Done /\ C5_Pre => NoUnitIds \subseteq Keep /\ WithUnitIds \subseteq Remove

\* the condo-style shape of lines 211-218, over the whole community
CondoShape ==
    /\ Cardinality({community[id].Street_Address : id \in InputIds}) <= 3
    /\ 5 * Cardinality(WithUnitIds) > 4 * Len(community)
    /\ Len(community) > 50

LoneNoUnit == Cardinality(NoUnitIds) = 1 /\ Cardinality(WithUnitIds) > 10

\* C5 amended: the same community, when it is not condo-style, has every
\* has-unit record in remove and every no-unit record in keep, except that a
\* single no-unit record among more than 10 has-unit records is in remove.
C5_SfaKeepsNoUnitUnlessOverridden ==
    Done /\ C5_Pre /\ ~CondoShape =>
        LET keep == Keep
            remove == Remove
        IN  /\ WithUnitIds \subseteq remove /\ WithUnitIds \cap keep = {}
            /\ IF LoneNoUnit
               THEN NoUnitIds \subseteq remove /\ NoUnitIds \cap keep = {}
               ELSE NoUnitIds \subseteq keep /\ NoUnitIds \cap remove = {}

C5_Witness ==
    /\ Done /\ C5_Pre /\ ~CondoShape /\ ~LoneNoUnit
    /\ Cardinality(NoUnitIds) > 1
    /\ NoUnitIds \subseteq Keep

\* the records that reach the one-off check, split by unit designator
SurvivorsNoUnit == {r.idx : r \in Range(NoUnitRows(proc.subname_df))}

SurvivorsWithUnit == {r.idx : r \in Range(WithUnitRows(proc.subname_df))}

OneOffKinds == {"one_off_no_unit", "one_off_with_unit"}

\* the record the one-off rule is about, as a set of at most one id
OneOffRecord ==
    LET nu == SurvivorsNoUnit
        wu == SurvivorsWithUnit
    IN  IF Cardinality(nu) + Cardinality(wu) > 10 /\ Cardinality(nu) = 1
           /\ Cardinality(wu) > 10
        THEN nu
        ELSE IF Cardinality(nu) + Cardinality(wu) > 10 /\ Cardinality(wu) = 1
                /\ Cardinality(nu) > 10
        THEN wu
        ELSE {}

\* C6: with more than 10 surviving records of which exactly one lacks a unit
\* and more than 10 have one (or the reverse), the lone record ends in
\* remove, not in keep, with exactly one one-off flag entry; in a
\* Residential-MDU community that entry is its only format/dedup flag.
C6_OneOffOverride ==
    Done =>
        \A lone \in OneOffRecord :
            LET mine == SelectSeq(proc.flagged, LAMBDA f : f.index = lone)
                oneoffs == SelectSeq(mine, LAMBDA f : f.reason.kind \in OneOffKinds)
            IN  /\ lone \in Remove
                /\ lone \notin Keep
                /\ Len(oneoffs) = 1
                /\ oneoffs[1].reason.kind =
                       IF lone \in SurvivorsNoUnit THEN "one_off_no_unit"
                       ELSE "one_off_with_unit"
                /\ oneoffs[1].reason.n =
                       IF lone \in SurvivorsNoUnit THEN Cardinality(SurvivorsWithUnit)
                       ELSE Cardinality(SurvivorsNoUnit)
                /\ building_type = MDU =>
                       \A i \in 1..Len(mine) :
                           mine[i].reason.kind \in OneOffKinds \cup {"oversize"}

C6_Witness ==
    /\ Done
    /\ building_type = MDU
    /\ OneOffRecord # {}
    /\ OneOffRecord \subseteq SurvivorsNoUnit
    /\ OneOffRecord \subseteq Remove

FlagStages == {"oversize", "formats", "minority"}

\* the call with the flags of stages 3, 5 and 7 discarded as they are raised
RECURSIVE RunQuiet(_, _, _)
RunQuiet(p, bt, cols) ==
    IF p.pc = "done" THEN p
    ELSE LET q == Step(p, bt, cols)
         IN  RunQuiet([q EXCEPT !.flagged = IF p.pc \in FlagStages THEN p.flagged ELSE @],
                      bt, cols)

C7_Step ==
    /\ proc.pc = "one_off" =>
           /\ Range(proc'.keep_addresses) = Keep \ OneOffRecord
           /\ Range(proc'.remove_addresses) = Remove \cup OneOffRecord
    /\ proc.pc \in FlagStages =>
           /\ proc'.keep_addresses = proc.keep_addresses
           /\ proc'.remove_addresses = proc.remove_addresses
    /\ proc'.pc = "done" =>
           LET quiet == RunQuiet(InitProc(community), building_type, columns)
           IN  /\ quiet.keep_addresses = proc'.keep_addresses
               /\ quiet.remove_addresses = proc'.remove_addresses

Stage5Ran == proc.pc \notin {"anomalies", "plus4", "oversize", "formats"}

Stage5Kinds == {"mdu_anomalous", "mdu_minority"}

AfterDedup == proc.pc \in {"minority", "one_off"}

MduKinds == {"mdu_anomalous", "mdu_minority"}

C11_AtBoundary ==
    /\ AfterDedup
    /\ building_type \in {"SFA", "HOA"}
    /\ ~proc.is_condo_style
    /\ LET rows == proc.subname_df
           total == Len(rows)
           with_units == Len(WithUnitRows(rows))
           unique_streets == Cardinality({rows[i].Street_Address : i \in 1..total})
       IN  \/ total = 50 /\ with_units * 5 > 4 * total /\ unique_streets <= 3
           \/ total > 50 /\ with_units * 5 = 4 * total /\ unique_streets <= 3
           \/ total > 50 /\ with_units * 5 > 4 * total /\ unique_streets = 4
    /\ \E id \in Keep : \E other \in Remove :
           /\ isna(community[id].Unit_Number)
           /\ ~isna(community[other].Unit_Number)
           /\ community[other].Street_Address = community[id].Street_Address

DedupRan == proc.pc \in {"minority", "one_off", "done"}

\* condo-style, as stage 4 defines it, over the survivors of stages 1-2
CondoStyleCommunity ==
    LET survivors == AfterStage2
        streets == {community[id].Street_Address : id \in survivors}
        with == {id \in survivors : ~isna(community[id].Unit_Number)}
    IN  /\ Cardinality(streets) <= 3
        /\ Cardinality(with) * 5 > 4 * Cardinality(survivors)
        /\ Cardinality(survivors) > 50

\* the street addresses whose records in the frame of stage 6 all lack a unit
IsolatedNoUnitStreets ==
    LET rows == proc.subname_df
        with == {rows[i].Street_Address : i \in {j \in 1..Len(rows) : ~isna(rows[j].Unit_Number)}}
    IN  {rows[i].Street_Address : i \in 1..Len(rows)} \ with

\* C12: in an MDU or condo-style community, the records of a street address
\* whose surviving records all lack a unit are removed when at least 80%
\* (inclusive) of the whole community's surviving records have a unit, and
\* kept otherwise; the fraction is the community's, not the street's.
C12_IsolatedNoUnitFraction ==
    (DedupRan /\ (building_type = MDU \/ CondoStyleCommunity)) =>
        LET rows == proc.subname_df
            total == Len(rows)
            with_units == Cardinality({i \in 1..total : ~isna(rows[i].Unit_Number)})
            keep == Keep
            remove == Remove
        IN  \A st \in IsolatedNoUnitStreets :
                LET on == {rows[i].idx : i \in {j \in 1..total : rows[j].Street_Address = st}}
                IN  IF with_units * 5 >= 4 * total
                    THEN on \subseteq remove /\ on \cap keep = {}
                    ELSE on \subseteq keep /\ on \cap remove = {}

\* an MDU community with exactly 80% of its records bearing a unit and a
\* street of records without one: they are removed
C12_Witness ==
    /\ Done
    /\ building_type = MDU
    /\ IsolatedNoUnitStreets # {}
    /\ Len(WithUnitRows(proc.subname_df)) * 5 = 4 * Len(proc.subname_df)
    /\ \E i \in 1..Len(proc.subname_df) :
           /\ proc.subname_df[i].Street_Address \in IsolatedNoUnitStreets
           /\ proc.subname_df[i].idx \in Remove

\* below 80% the records of such a street are kept
C12_KeptBelow ==
    /\ Done
    /\ building_type = MDU
    /\ Len(WithUnitRows(proc.subname_df)) > 0
    /\ \E i \in 1..Len(proc.subname_df) :
           /\ proc.subname_df[i].Street_Address \in IsolatedNoUnitStreets
           /\ proc.subname_df[i].idx \in Keep

\* C14: stage 7 never emits a flag entry: in a community not declared
\* Residential-MDU every record that reaches street-level deduplication is
\* assigned to keep or remove by it, and the flagged list holds oversize and
\* one-off entries only, however mixed the unit formats are.
C14_Stage7NeverFlags ==
    LET kinds == {proc.flagged[i].reason.kind : i \in 1..Len(proc.flagged)}
    IN  /\ "minority" \notin kinds
        /\ building_type # MDU =>
               /\ kinds \subseteq {"oversize"} \cup OneOffKinds
               /\ DedupRan => Range(Indices(proc.subname_df)) \subseteq Keep \cup Remove

\* a community not declared MDU whose majority format covers more than 80%
\* of the records and which holds a record of another format: stage 7's
\* outer conditions are met, and the call ends without a flag from it
C14_Witness ==
    /\ Done
    /\ building_type # MDU
    /\ LET all_formats == proc.all_formats
           tags == Range(all_formats)
       IN  /\ Cardinality(tags) > 1
           /\ \E majority \in tags :
                  /\ Count(all_formats, majority) * 5 > 4 * Len(all_formats)
                  /\ \E other \in tags : other \notin {majority, "no_unit"}
    /\ proc.keep_addresses # <<>>

\* C15: the keep sequence and the remove sequence returned by the call each
\* hold any record id at most once, also when the one-off override of stage
\* 8 fires on a record that stage 6 had already removed.
C15_IdsAtMostOnce ==
    Done => \A id \in InputIds :
                /\ Count(proc.keep_addresses, id) <= 1
                /\ Count(proc.remove_addresses, id) <= 1

\* the keep half of C15: it holds
C15_KeepAtMostOnce ==
    Done => \A id \in InputIds : Count(proc.keep_addresses, id) <= 1

\* a record is twice in remove only as the one-off record of stage 8
C15_OnlyOneOffRepeats ==
    Done => \A id \in InputIds :
                Count(proc.remove_addresses, id) > 1 =>
                    /\ Count(proc.remove_addresses, id) = 2
                    /\ \E i \in 1..Len(proc.flagged) :
                           /\ proc.flagged[i].index = id
                           /\ proc.flagged[i].reason.kind \in OneOffKinds

(***************************************************************************)
(* Full run: initial_sort, process_roe_deduplication (one group per step,  *)
(* then the tabs, the sort and add_spacing_to_roe), create_flagged_tab and *)
(* create_unit_count_tab.                                                  *)
(*                                                                         *)
(* Subname and Building Type are strings; their sort order is the order of *)
(* SubnameOrder and TypeOrder.  Street Name and Street Address are ranks.  *)
(***************************************************************************)
MaxRunRows == 3

NoSubname == "No Subname"

SubnameOrder == <<"Arbor", NoSubname, "Oaks">>

TypeOrder == <<"HOA", "Mobile", MDU, "SFA">>

RankIn(order, x) == CHOOSE i \in 1..Len(order) : order[i] = x

LexLess(a, b) == \E k \in 1..Len(a) : a[k] < b[k] /\ \A j \in 1..(k - 1) : a[j] = b[j]

\* positions 1..Len(keys) in ascending key order, equal keys in input order
RECURSIVE SortedPositions(_, _)
SortedPositions(keys, left) ==
    IF left = {} THEN <<>>
    ELSE LET m == CHOOSE i \in left : \A j \in left \ {i} :
                      LexLess(keys[i], keys[j]) \/ (keys[i] = keys[j] /\ i < j)
         IN  <<m>> \o SortedPositions(keys, left \ {m})

\* DataFrame.sort_values on the key columns (a stable sort)
sort_values(rows, keys) ==
    LET at == SortedPositions(keys, 1..Len(rows))
    IN  [k \in 1..Len(rows) |-> rows[at[k]]]

\* DataFrame.loc[labels]: one row per label, in the order of the labels
loc(rows, labels) ==
    [k \in 1..Len(labels) |-> rows[CHOOSE i \in 1..Len(rows) : rows[i].idx = labels[k]]]

OfType(rows, types) == SelectSeq(rows, LAMBDA r : r.Building_Type \in types)

BlankRow == [blank |-> TRUE, idx |-> 0, Subname |-> "None", Building_Type |-> "None",
             Unit_Count |-> <<>>]

\* a row of the ROE tab; Unit Count is <<>> for None and <<n>> for n
RoeRow(r, count) ==
    [blank |-> FALSE, idx |-> r.idx, Subname |-> r.Subname,
     Building_Type |-> r.Building_Type, Unit_Count |-> count]

\* a plausible slip: first_in_community is not set again when the subname changes
RECURSIVE SpacingLoop_NoReset(_, _, _, _, _)
SpacingLoop_NoReset(rows, subname_counts, prev_subname, first_in_community, out) ==
    IF rows = <<>> THEN out
    ELSE LET row == Head(rows)
             current_subname == row.Subname
             changed == prev_subname # "None" /\ current_subname # prev_subname
             spaced == IF changed THEN Append(out, BlankRow) ELSE out
         IN  SpacingLoop_NoReset(Tail(rows), subname_counts, current_subname, FALSE,
                         Append(spaced, RoeRow(row, IF first_in_community
                                                    THEN <<subname_counts[current_subname]>>
                                                    ELSE <<>>)))

\* lines 444-463: the loop of add_spacing_to_roe
RECURSIVE SpacingLoop(_, _, _, _, _)
SpacingLoop(rows, subname_counts, prev_subname, first_in_community, out) ==
    IF rows = <<>> THEN out
    ELSE LET row == Head(rows)
             current_subname == row.Subname
             changed == prev_subname # "None" /\ current_subname # prev_subname
             first == first_in_community \/ changed
             spaced == IF changed THEN Append(out, BlankRow) ELSE out
         IN  SpacingLoop(Tail(rows), subname_counts, current_subname,
                         IF first THEN FALSE ELSE first_in_community,
                         Append(spaced, RoeRow(row, IF first
                                                    THEN <<subname_counts[current_subname]>>
                                                    ELSE <<>>)))

\* lines 427-466
add_spacing_to_roe(roe) ==
    IF Len(roe) = 0 THEN <<>>
    ELSE LET names == {roe[i].Subname : i \in 1..Len(roe)}
             subname_counts ==
                 [n \in names |-> Cardinality({i \in 1..Len(roe) : roe[i].Subname = n})]
         IN  SpacingLoop(roe, subname_counts, "None", TRUE, <<>>)

\* the sort key of the ROE tab, lines 414-419
RoeSortKey(r, cols) ==
    IF "Street Name" \in cols
    THEN <<RankIn(SubnameOrder, r.Subname), r.Street_Name, r.Street_Address>>
    ELSE <<RankIn(SubnameOrder, r.Subname), r.Street_Address>>

GroupKeyLess(a, b) ==
    LexLess(<<RankIn(SubnameOrder, a[1]), RankIn(TypeOrder, a[2])>>,
            <<RankIn(SubnameOrder, b[1]), RankIn(TypeOrder, b[2])>>)

RECURSIVE SortedGroupKeys(_)
SortedGroupKeys(S) ==
    IF S = {} THEN <<>>
    ELSE LET m == CHOOSE x \in S : \A y \in S \ {x} : GroupKeyLess(x, y)
         IN  <<m>> \o SortedGroupKeys(S \ {m})

\* the keys of roe_candidates.groupby(['Subname', 'Building Type']), ascending
GroupKeys(rows) ==
    SortedGroupKeys({<<rows[i].Subname, rows[i].Building_Type>> : i \in 1..Len(rows)})

\* lines 389-398: the frame of one group, sorted when it is the No Subname group
GroupFrame(rows, key, cols) ==
    LET subname_df == SelectSeq(rows, LAMBDA r : r.Subname = key[1]
                                                 /\ r.Building_Type = key[2])
    IN  IF key[1] = NoSubname
        THEN sort_values(subname_df,
                 [i \in 1..Len(subname_df) |->
                     IF "Street Name" \in cols THEN <<subname_df[i].Street_Name>>
                     ELSE <<subname_df[i].Street_Address>>])
        ELSE subname_df

RunStart ==
    [pc |-> "initial_sort",
     Public |-> <<>>, Commercial |-> <<>>, Competitive |-> <<>>, Other |-> <<>>,
     ROE |-> <<>>, Remove |-> <<>>, Flagged |-> <<>>, Unit_Count |-> <<>>,
     roe_candidates |-> <<>>, groups |-> <<>>,
     keep_indices |-> <<>>, remove_indices |-> <<>>, flagged_addresses |-> <<>>]

\* lines 65-94
initial_sort(r, frame) ==
    LET roe_candidates == OfType(frame, {MDU, "SFA", "HOA", "Mobile"})
    IN  [r EXCEPT !.Public = OfType(frame, {"Residential"}),
                  !.Commercial = OfType(frame, {"Commercial"}),
                  !.Competitive = OfType(frame, {"Competitive"}),
                  !.Other = OfType(frame, {"Other"}),
                  !.roe_candidates = roe_candidates,
                  !.groups = GroupKeys(roe_candidates),
                  !.pc = "dedup"]

\* lines 389-404: one pass of the loop over the groups
process_group(r, cols) ==
    LET key == Head(r.groups)
        subname_df == GroupFrame(r.roe_candidates, key, cols)
        result == process_roe_subname(subname_df, key[2], cols)
    IN  [r EXCEPT !.keep_indices = @ \o result.keep_addresses,
                  !.remove_indices = @ \o result.remove_addresses,
                  !.flagged_addresses = @ \o result.flagged,
                  !.groups = Tail(@)]

\* lines 410-422: the ROE and Remove tabs, the sort and the spacing
build_tabs(r, cols) ==
    LET kept == loc(r.roe_candidates, r.keep_indices)
        sorted == sort_values(kept, [i \in 1..Len(kept) |-> RoeSortKey(kept[i], cols)])
    IN  [r EXCEPT !.ROE = add_spacing_to_roe(sorted),
                  !.Remove = loc(r.roe_candidates, r.remove_indices),
                  !.pc = "flagged_tab"]

\* lines 468-476
create_flagged_tab(r) ==
    [r EXCEPT !.Flagged = r.flagged_addresses, !.pc = "unit_count"]

\* lines 478-521: (category, count) pairs in the order they are appended
create_unit_count_tab(r, frame) ==
    LET typed == SelectSeq(r.ROE, LAMBDA x : ~x.blank)
        types == SelectSeq(TypeOrder, LAMBDA t : \E i \in 1..Len(typed) :
                                                    typed[i].Building_Type = t)
        by_type == [k \in 1..Len(types) |->
                       <<"ROE - " \o types[k],
                         Cardinality({i \in 1..Len(typed) :
                                         typed[i].Building_Type = types[k]})>>]
    IN  [r EXCEPT !.Unit_Count =
                      <<<<"Total", Len(frame)>>, <<"Public", Len(r.Public)>>,
                        <<"Commercial", Len(r.Commercial)>>>>
                      \o by_type
                      \o <<<<"ROE - Total", Len(r.ROE)>>,
                           <<"Competitive", Len(r.Competitive)>>,
                           <<"Other", Len(r.Other)>>, <<"Remove", Len(r.Remove)>>>>,
                  !.pc = "done"]

T(bt, sub, unit, addr, sname) ==
    [Building_Type |-> bt, Subname |-> sub, Unit_Number |-> unit,
     Street_Address |-> addr, Street_Name |-> sname, Plus_4_Code |-> NaN, Zip |-> NaN]

RunTemplates ==
    {T("Residential", NoSubname, NaN, 1, 1), T("Commercial", NoSubname, NaN, 1, 1),
     T("Competitive", NoSubname, NaN, 1, 1), T("Other", NoSubname, NaN, 1, 1),
     T(MDU, "Arbor", UNIT_6, 1, 1), T(MDU, "Arbor", Apt_6, 1, 1),
     T(MDU, "Arbor", NaN, 2, 2),
     T("SFA", "Arbor", NaN, 1, 1), T("SFA", "Arbor", UNIT_6, 1, 1),
     T("SFA", NoSubname, NaN, 2, 1), T("SFA", NoSubname, NaN, 1, 2),
     T("HOA", NoSubname, NaN, 1, 2),
     T("Mobile", "Oaks", UNIT_6, 1, 1)}

\* a bulk that puts an MDU community over the one-off threshold
RunBulk == [i \in 1..(ONE_OFF_MIN + 1) |-> T(MDU, "Arbor", UNIT_6, 1, 1)]

NumberRun(templates) ==
    [i \in 1..Len(templates) |->
        [idx |-> i,
         Building_Type |-> templates[i].Building_Type,
         Subname |-> templates[i].Subname,
         Unit_Number |-> templates[i].Unit_Number,
         Street_Address |-> templates[i].Street_Address,
         Street_Name |-> templates[i].Street_Name,
         Plus_4_Code |-> templates[i].Plus_4_Code,
         Zip |-> templates[i].Zip]]

RunFrames ==
    {NumberRun(t \o bulk) : t \in SeqsUpTo(RunTemplates, MaxRunRows), bulk \in {<<>>, RunBulk}}

InitRun ==
    /\ df \in RunFrames
    /\ columns \in {{}, {"Street Name"}}
    /\ run = RunStart
    /\ community = <<>> /\ building_type = "None" /\ proc = Idle
    /\ unit_value = NaN /\ unit_result = Pending

RunFrame == UNCHANGED <<unit_value, unit_result, community, building_type, columns, proc, df>>

InitialSort ==
    /\ run.pc = "initial_sort"
    /\ run' = initial_sort(run, df)
    /\ RunFrame

ProcessGroup ==
    /\ run.pc = "dedup"
    /\ run.groups # <<>>
    /\ run' = process_group(run, columns)
    /\ RunFrame

BuildTabs ==
    /\ run.pc = "dedup"
    /\ run.groups = <<>>
    /\ run' = build_tabs(run, columns)
    /\ RunFrame

CreateFlaggedTab ==
    /\ run.pc = "flagged_tab"
    /\ run' = create_flagged_tab(run)
    /\ RunFrame

CreateUnitCountTab ==
    /\ run.pc = "unit_count"
    /\ run' = create_unit_count_tab(run, df)
    /\ RunFrame

NextRun ==
    \/ InitialSort
    \/ ProcessGroup
    \/ BuildTabs
    \/ CreateFlaggedTab
    \/ CreateUnitCountTab

SpecRun == InitRun /\ [][NextRun]_vars

(***************************************************************************)
(* Properties of the full run                                              *)
(***************************************************************************)
RunDone == run.pc = "done"

RoeRecords == SelectSeq(run.ROE, LAMBDA x : ~x.blank)

\* C2: after a full run every input record occurs exactly once across
\* Public, Commercial, Competitive, Other, ROE (spacers ignored) and Remove.
C2_OutputsPartitionInput ==
    RunDone =>
        LET all == Indices(run.Public) \o Indices(run.Commercial)
                   \o Indices(run.Competitive) \o Indices(run.Other)
                   \o Indices(RoeRecords) \o Indices(run.Remove)
        IN  \A id \in 1..Len(df) : Count(all, id) = 1

\* the spacer/count shape of the ROE tab for communities told apart by Same
SpacerCountShape(Same(_, _)) ==
    LET roe == run.ROE
        rows == {i \in 1..Len(roe) : ~roe[i].blank}
        kept == loc(run.roe_candidates, run.keep_indices)
    IN  /\ Len(RoeRecords) = Len(kept)
        /\ \A i \in rows :
               LET mates == {j \in rows : Same(roe[j], roe[i])}
                   n == Cardinality({k \in 1..Len(kept) : Same(kept[k], roe[i])})
                   isFirst == \A j \in mates : i <= j
                   isFirstOfAll == \A j \in rows : i <= j
               IN  /\ isFirst => roe[i].Unit_Count = <<n>>
                   /\ ~isFirst => roe[i].Unit_Count = <<>>
                   /\ isFirstOfAll => i = 1
                   /\ isFirst /\ ~isFirstOfAll =>
                          roe[i - 1].blank /\ ~roe[i - 2].blank
                   /\ ~isFirst => ~roe[i - 1].blank

SameGroup(a, b) == a.Subname = b.Subname /\ a.Building_Type = b.Building_Type

SameSubname(a, b) == a.Subname = b.Subname

\* C8 as stated: for every (community name, building category) group with n
\* kept records the group's first ROE row carries count n, its later rows no
\* count, and each following group's first row follows exactly one spacer.
C8_SpacerCountPerGroup == RunDone => SpacerCountShape(SameGroup)

\* C8 amended: the same for every community name (the kept records of one
\* Subname, whatever their building category).
C8_SpacerCountPerSubname == RunDone => SpacerCountShape(SameSubname)

C8_Witness ==
    /\ RunDone
    /\ \E i \in 1..Len(run.ROE) : run.ROE[i].blank
    /\ \E i \in 1..Len(run.ROE) : Len(run.ROE[i].Unit_Count) = 1
                                    /\ run.ROE[i].Unit_Count[1] > 1
    /\ \E i, j \in 1..Len(run.ROE) :
           /\ ~run.ROE[i].blank /\ ~run.ROE[j].blank
           /\ run.ROE[i].Subname = run.ROE[j].Subname
           /\ run.ROE[i].Building_Type # run.ROE[j].Building_Type

\* the counts of the summary filed under a category
CountsOf(category) ==
    SelectSeq(run.Unit_Count, LAMBDA e : e[1] = category)

RECURSIVE SumCounts(_)
SumCounts(entries) ==
    IF entries = <<>> THEN 0 ELSE Head(entries)[2] + SumCounts(Tail(entries))

RoeTypeCategories == {"ROE - " \o TypeOrder[k] : k \in 1..Len(TypeOrder)}

RoeByType == SelectSeq(run.Unit_Count, LAMBDA e : e[1] \in RoeTypeCategories)

Spacers == SelectSeq(run.ROE, LAMBDA x : x.blank)

\* C13: in the count summary the ROE total equals the number of records
\* kept across all communities (spacers not counted) and the sum of the
\* per-building-category ROE counts, and the Remove count equals the number
\* of distinct removed records.
C13_CountSummary ==
    RunDone =>
        /\ CountsOf("ROE - Total") = <<<<"ROE - Total", Cardinality(Range(run.keep_indices))>>>>
        /\ SumCounts(CountsOf("ROE - Total")) = SumCounts(RoeByType)
        /\ CountsOf("Remove") = <<<<"Remove", Cardinality(Range(run.remove_indices))>>>>

\* the ROE part of C13 alone
C13_RoeTotalIsKept ==
    RunDone =>
        /\ CountsOf("ROE - Total") = <<<<"ROE - Total", Cardinality(Range(run.keep_indices))>>>>
        /\ SumCounts(CountsOf("ROE - Total")) = SumCounts(RoeByType)

\* what the summary holds instead: the ROE total counts the spacer rows too,
\* the per-category counts add up to the kept records, and the Remove count
\* is the length of the remove list, repeated entries included
C13_CountsWithSpacers ==
    RunDone =>
        /\ CountsOf("ROE - Total") =
               <<<<"ROE - Total", Len(run.keep_indices) + Len(Spacers)>>>>
        /\ SumCounts(RoeByType) = Len(run.keep_indices)
        /\ CountsOf("Remove") = <<<<"Remove", Len(run.remove_indices)>>>>

\* C13 without the spacers' part: the per-category counts add up to the kept
\* records and the Remove count is the number of distinct removed records
C13_RemoveCountDistinct ==
    RunDone =>
        /\ SumCounts(RoeByType) = Cardinality(Range(run.keep_indices))
        /\ CountsOf("Remove") = <<<<"Remove", Cardinality(Range(run.remove_indices))>>>>

\* the consequence C15 draws for the full run: the Remove tab holds no
\* record twice
C15_RemoveTabNoRepeats ==
    RunDone => \A id \in 1..Len(df) : Count(Indices(run.Remove), id) <= 1

(***************************************************************************)
(* Classifier run: unit values are concatenations of at most MaxTokens     *)
(* tokens, or the missing value.                                           *)
(***************************************************************************)
MaxTokens == 2

UnitTokens == {KW_UNIT, <<"u","n","i","t">>, KW_APT, <<"a","p","t">>, KW_STE,
               KW_BLDG, KW_BUILDING, KW_HASH, KW_BDASH, KW_OFC, <<"C","l","u","b">>,
               <<"6">>, <<"1","2">>, <<" ">>, <<"J">>, <<"-">>}

RECURSIVE TokenStrings(_)
TokenStrings(n) ==
    IF n = 0 THEN {<<>>}
    ELSE LET shorter == TokenStrings(n - 1) IN
         shorter \cup {s \o t : s \in shorter, t \in UnitTokens}

UnitInputs == {NaN} \cup TokenStrings(MaxTokens)

InitUnit ==
    /\ unit_value \in UnitInputs
    /\ unit_result = Pending
    /\ community = Idle /\ building_type = Idle /\ columns = Idle /\ proc = Idle
    /\ df = Idle /\ run = Idle

ClassifyUnit ==
    /\ unit_result = Pending
    /\ unit_result' = [format |-> get_unit_format_type(unit_value),
                       anomaly |-> detect_unit_anomalies(unit_value)]
    /\ UNCHANGED <<unit_value, community, building_type, columns, proc, df, run>>

NextUnit == ClassifyUnit

SpecUnit == InitUnit /\ [][NextUnit]_vars

(***************************************************************************)
(* Properties of the classifier run                                        *)
(***************************************************************************)
Classified == unit_result # Pending

\* the rules of the claim, in the stated order, on the trimmed upper-cased value
RuleHolds(k, v) ==
    CASE k = 1 -> startswith(v, KW_UNIT)
      [] k = 2 -> startswith(v, KW_APT)
      [] k = 3 -> v # <<>> /\ \A i \in 1..Len(v) : v[i] \in Digits
      [] k = 4 -> startswith(v, KW_STE)
      [] k = 5 -> contains(v, KW_BLDG) \/ contains(v, KW_BUILDING)
      [] k = 6 -> startswith(v, KW_HASH) /\ contains(v, KW_BDASH)
      [] k = 7 -> startswith(v, KW_HASH)
      [] OTHER -> TRUE

RuleTags == <<"unit_format", "apt_format", "number_only", "ste_format",
              "building_format", "hash_b_format", "hash_format", "other_format">>

FirstRuleTag(v) ==
    RuleTags[CHOOSE k \in 1..8 : RuleHolds(k, v) /\ \A j \in 1..(k - 1) : ~RuleHolds(j, v)]

MissingOrEmpty(u) == isna(u) \/ strip(u) = <<>>

\* C9: the classifier returns one of the nine tags for every unit value; a
\* missing or empty value gives no_unit; any other value gives the tag of
\* the first rule, in the stated order, that its trimmed, case-folded form
\* matches.
C9_FirstMatchingRule ==
    Classified =>
        /\ unit_result.format \in FormatTags
        /\ unit_result.format =
               IF MissingOrEmpty(unit_value) THEN "no_unit"
               ELSE FirstRuleTag(upper(strip(unit_value)))

\* the same statement for the values that are missing or not empty: it holds
C9_FirstMatchingRuleNonEmpty ==
    Classified /\ (isna(unit_value) \/ strip(unit_value) # <<>>) =>
        /\ unit_result.format \in FormatTags
        /\ unit_result.format =
               IF isna(unit_value) THEN "no_unit"
               ELSE FirstRuleTag(upper(strip(unit_value)))

====
